---------------------------- MODULE Spec2Model ----------------------------
(***************************************************************************)
(* Model of celloracle/motif_analysis/process_bed_file.py: the peak-ID     *)
(* codec, the peak validator, the peak-to-sequence converter, the sequence *)
(* cleaner and the BED loader.                                             *)
(*                                                                         *)
(* A Python str is a sequence of one-character strings, so that split,     *)
(* join, int() and str() are computed and not assumed.  A call is one      *)
(* step: the caller is idle, calls one function on an input, and the state *)
(* after the step holds the argument as it was passed (arg), the objects   *)
(* the call left on the heap (heap) and what it returned or raised (ret).  *)
(* A caller may pass what one call returned to the next call; hist holds   *)
(* the calls made so far in such a chain, stdout what the call printed.     *)
(***************************************************************************)
EXTENDS Integers, Sequences, FiniteSets, TLC

VARIABLES call, arg, heap, ret, hist, stdout

vars == <<call, arg, heap, ret, hist, stdout>>

-----------------------------------------------------------------------------
(* Bounds of the model *)

\* number of underscore-delimited tokens of the identifiers given to the codec
MaxTokens == 4
\* number of rows of a peak table given to check_peak_format
MaxRows == 3
\* number of identifiers in a list given to the batch codec
MaxIds == 2
\* number of identifiers in a list given to peak2fasta
MaxPeaks == 2
\* number of records of a Fasta given to remove_zero_seq
MaxSeqs == 3
\* number of lines of a BED file
MaxBedRows == 2

-----------------------------------------------------------------------------
(* Python str, int() and str() *)

Digits == {"0", "1", "2", "3", "4", "5", "6", "7", "8", "9"}

DigitVal(c) ==
    CASE c = "0" -> 0 [] c = "1" -> 1 [] c = "2" -> 2 [] c = "3" -> 3
      [] c = "4" -> 4 [] c = "5" -> 5 [] c = "6" -> 6 [] c = "7" -> 7
      [] c = "8" -> 8 [] c = "9" -> 9

DigitChar(d) ==
    CASE d = 0 -> "0" [] d = 1 -> "1" [] d = 2 -> "2" [] d = 3 -> "3"
      [] d = 4 -> "4" [] d = 5 -> "5" [] d = 6 -> "6" [] d = 7 -> "7"
      [] d = 8 -> "8" [] d = 9 -> "9"

\* the digits of s after an optional sign
Unsigned(s) == IF s # <<>> /\ Head(s) \in {"-", "+"} THEN Tail(s) ELSE s

\* whether int(s) returns: an optional sign and at least one decimal digit
\* (the tokens of the model hold no whitespace, which int() would strip)
int_ok(s) ==
    /\ Unsigned(s) # <<>>
    /\ \A i \in 1..Len(Unsigned(s)) : Unsigned(s)[i] \in Digits

RECURSIVE NatOfDigits(_)
NatOfDigits(s) ==
    IF s = <<>> THEN 0
    ELSE 10 * NatOfDigits(SubSeq(s, 1, Len(s) - 1)) + DigitVal(s[Len(s)])

\* int(s), for int_ok(s)
int(s) ==
    IF Head(s) = "-" THEN 0 - NatOfDigits(Unsigned(s)) ELSE NatOfDigits(Unsigned(s))

RECURSIVE NatToStr(_)
NatToStr(n) ==
    IF n < 10 THEN <<DigitChar(n)>>
    ELSE NatToStr(n \div 10) \o <<DigitChar(n % 10)>>

\* str(n) of a Python int
str(n) == IF n < 0 THEN <<"-">> \o NatToStr(0 - n) ELSE NatToStr(n)

\* peak_str.split("_"): always at least one token, empty tokens kept
RECURSIVE split(_)
split(s) ==
    IF s = <<>> THEN << <<>> >>
    ELSE LET r == split(Tail(s)) IN
         IF Head(s) = "_" THEN << <<>> >> \o r
         ELSE << <<Head(s)>> \o Head(r) >> \o Tail(r)

\* "_".join(tokens)
RECURSIVE join(_)
join(toks) ==
    IF toks = <<>> THEN <<>>
    ELSE IF Len(toks) = 1 THEN toks[1]
    ELSE toks[1] \o <<"_">> \o join(Tail(toks))

-----------------------------------------------------------------------------
(* Results of a call: a value, or the exception the call raised *)

Ok(v) == [exc |-> "none", val |-> v]
Raise(e) == [exc |-> e, val |-> <<>>]

-----------------------------------------------------------------------------
(* Peak-ID codec *)

\* a plausible slip: chromosome, start, end taken from the left
decompose_fromleft(peak_str) ==
    LET toks == split(peak_str) IN
    IF Len(toks) < 3 THEN Raise("ValueError")
    ELSE Ok(<<toks[1], toks[2], join(SubSeq(toks, 3, Len(toks)))>>)

\* a plausible slip: three plain targets, which take exactly three tokens
decompose_three(peak_str) ==
    LET toks == split(peak_str) IN
    IF Len(toks) # 3 THEN Raise("ValueError")
    ELSE Ok(<<toks[1], toks[2], toks[3]>>)

\* *chr_, start, end = peak_str.split("_"); chr_ = "_".join(chr_)
\* The starred target takes zero or more tokens: unpacking needs two tokens.
decompose_chrstr(peak_str) ==
    LET toks == split(peak_str)
        n == Len(toks)
    IN  IF n < 2 THEN Raise("ValueError")
        ELSE Ok(<<join(SubSeq(toks, 1, n - 2)), toks[n - 1], toks[n]>>)

\* a plausible slip: the start is recomposed without the decrement
peak_M1_nodec(peak_id) ==
    LET d == decompose_chrstr(peak_id) IN
    IF d.exc # "none" THEN d
    ELSE IF ~int_ok(d.val[2]) THEN Raise("ValueError")
    ELSE Ok(d.val[1] \o <<"_">> \o str(int(d.val[2])) \o <<"_">> \o d.val[3])

\* chr_ + "_" + str(int(start)-1) + "_" + end
peak_M1(peak_id) ==
    LET d == decompose_chrstr(peak_id) IN
    IF d.exc # "none" THEN d
    ELSE IF ~int_ok(d.val[2]) THEN Raise("ValueError")
    ELSE Ok(d.val[1] \o <<"_">> \o str(int(d.val[2]) - 1) \o <<"_">> \o d.val[3])

-----------------------------------------------------------------------------
(* Tables (pandas.DataFrame).  A table is its rows in order, each row with   *)
(* its index label; a numeric column has a dtype, and a float64 column       *)
(* holding whole numbers prints them with a trailing ".0".                   *)

DataFrame(rows, chrcol, dtypes) ==
    [cls |-> "DataFrame", rows |-> rows, chrcol |-> chrcol, dtypes |-> dtypes]

Int64 == [start |-> "int64", end |-> "int64"]

\* Series.astype(str) of one value of a numeric column
astype_str(v, dtype) ==
    IF dtype = "float64" THEN str(v) \o <<".", "0">> ELSE str(v)

\* df = np.array([decompose_chrstr(i) for i in x])
\* df = pd.DataFrame(df, columns=["chr", "start", "end"])
\* df["start"] = df["start"].astype(int); df["end"] = df["end"].astype(int)
\* For an empty list np.array gives an array of shape (0,), which DataFrame
\* refuses under three column names ("Empty data passed with indices
\* specified"): ValueError.
list_peakstr_to_df(x) ==
    LET d == [i \in 1..Len(x) |-> decompose_chrstr(x[i])] IN
    IF \E i \in 1..Len(x) : d[i].exc # "none" THEN Raise("ValueError")
    ELSE IF x = <<>> THEN Raise("ValueError")
    ELSE IF \E i \in 1..Len(x) : ~int_ok(d[i].val[2]) \/ ~int_ok(d[i].val[3])
         THEN Raise("ValueError")
    ELSE Ok(DataFrame([i \in 1..Len(x) |->
                          [index |-> i - 1, chr |-> d[i].val[1],
                           start |-> int(d[i].val[2]), end |-> int(d[i].val[3])]],
                      "chr", Int64))

\* x = x.rename(columns={"chrom":"chr"})
\* peak_str = x.chr + "_" + x.start.astype(str) + "_" + x.end.astype(str)
\* return peak_str.values
df_to_list_peakstr(x) ==
    IF x.chrcol \notin {"chr", "chrom"} THEN Raise("AttributeError")
    ELSE Ok([i \in 1..Len(x.rows) |->
                x.rows[i].chr \o <<"_">> \o astype_str(x.rows[i].start, x.dtypes.start)
                              \o <<"_">> \o astype_str(x.rows[i].end, x.dtypes.end)])

-----------------------------------------------------------------------------
(* Reference genome (genomepy.Genome): chromosome name -> sequence *)

chr1 == <<"c", "h", "r", "1">>
random == <<"r", "a", "n", "d", "o", "m">>
chr1_random == chr1 \o <<"_">> \o random

genome_data ==
    (chr1 :> <<"A", "C", "G", "T", "A", "C", "G", "T", "A", "C", "G", "T">>)
    @@ (chr1_random :> <<"G", "G", "C", "C">>)

-----------------------------------------------------------------------------
(* Peak validator.  Objects live on a heap (a sequence: a reference is a   *)
(* position in it), so that a copy and the object copied are told apart.   *)

\* a table whose only column besides the index is peak_id
PeakTable(rows) == [cls |-> "DataFrame", rows |-> rows]

\* n_threshold = 5
n_threshold == 5

abs(n) == IF n < 0 THEN 0 - n ELSE n

\* decomposed = [decompose_chrstr(peak_str) for peak_str in df["peak_id"]]
decomposed(tbl) == [i \in 1..Len(tbl.rows) |-> decompose_chrstr(tbl.rows[i].peak_id)]

\* whether lines 61-65 raise: an identifier that does not decompose, an empty
\* table (pd.DataFrame(np.array([])) has one column, and three names are
\* assigned to it), or a start or end that int() refuses.  All are ValueError.
\* (np.int is the builtin int, as in the numpy releases that still have it.)
decompose_raises(tbl) ==
    LET d == decomposed(tbl) IN
    \/ \E i \in 1..Len(d) : d[i].exc # "none"
    \/ tbl.rows = <<>>
    \/ \E i \in 1..Len(d) : ~int_ok(d[i].val[2]) \/ ~int_ok(d[i].val[3])

\* lengths = np.abs(df_decomposed["end"] - df_decomposed["start"]), by position
lengths(tbl) ==
    [i \in 1..Len(tbl.rows) |->
        LET d == decompose_chrstr(tbl.rows[i].peak_id).val IN
        abs(int(d[3]) - int(d[2]))]

\* df_decomposed.chr.isin(all_chr_list), by position
chr_isin(tbl, all_chr_list) ==
    [i \in 1..Len(tbl.rows) |->
        decompose_chrstr(tbl.rows[i].peak_id).val[1] \in all_chr_list]

\* (lengths >= n_threshold) & df_decomposed.chr.isin(all_chr_list): a boolean
\* Series whose index is that of df_decomposed, 0 .. n-1
mask(tbl, all_chr_list) ==
    [i \in 1..Len(tbl.rows) |->
        lengths(tbl)[i] >= n_threshold /\ chr_isin(tbl, all_chr_list)[i]]

\* df[key] with a boolean Series key: pandas aligns the key with df.index by
\* label.  It raises IndexingError when a label of df has no entry in the key.
getitem_raises(tbl, key) ==
    \E i \in 1..Len(tbl.rows) : tbl.rows[i].index \notin 0..(Len(key) - 1)

\* ... and otherwise keeps the rows whose label the key maps to True; the key
\* of check_peak_format is labelled 0 .. n-1, whatever the labels of df are.
RECURSIVE getitem_rows(_, _)
getitem_rows(rows, key) ==
    IF rows = <<>> THEN <<>>
    ELSE (IF key[Head(rows).index + 1] THEN <<Head(rows)>> ELSE <<>>)
         \o getitem_rows(Tail(rows), key)

Count(f) == Cardinality({ i \in DOMAIN f : f[i] })

\* the four lines check_peak_format prints
Printed(tbl, all_chr_list, n_after) ==
    << [text |-> "Peaks before filtering: ", n |-> Len(tbl.rows)],
       [text |-> "Peaks with invalid chr_name: ",
        n |-> Len(tbl.rows) - Count(chr_isin(tbl, all_chr_list))],
       [text |-> "Peaks with invalid length: ",
        n |-> Count([i \in 1..Len(tbl.rows) |-> lengths(tbl)[i] < n_threshold])],
       [text |-> "Peaks after filtering: ", n |-> n_after] >>

\* a plausible slip: no copy, and the rows are dropped from the table passed in
check_peak_format_inplace(h, peaks_df, all_chr_list) ==
    LET tbl == h[peaks_df] IN
    IF decompose_raises(tbl)
        THEN [heap |-> h, ret |-> Raise("ValueError"), stdout |-> <<>>]
    ELSE IF getitem_raises(tbl, mask(tbl, all_chr_list))
        THEN [heap |-> h, ret |-> Raise("IndexingError"), stdout |-> <<>>]
    ELSE LET kept == getitem_rows(tbl.rows, mask(tbl, all_chr_list)) IN
         [heap |-> [h EXCEPT ![peaks_df] = PeakTable(kept)],
          ret |-> Ok(peaks_df),
          stdout |-> Printed(tbl, all_chr_list, Len(kept))]

\* check_peak_format(peaks_df, ref_genome, genomes_dir): h is the heap at the
\* call, peaks_df the reference passed, all_chr_list the chromosomes of the
\* reference genome.  The result is the heap, the value returned (a reference)
\* or the exception raised, and the lines printed.
check_peak_format(h, peaks_df, all_chr_list) ==
    LET \* df = peaks_df.copy()
        h1 == Append(h, h[peaks_df])
        df == Len(h1)
        tbl == h1[df]
    IN
    IF decompose_raises(tbl)
        THEN [heap |-> h1, ret |-> Raise("ValueError"), stdout |-> <<>>]
    ELSE IF getitem_raises(tbl, mask(tbl, all_chr_list))
        THEN [heap |-> h1, ret |-> Raise("IndexingError"), stdout |-> <<>>]
    ELSE LET \* df = df[(lengths >= n_threshold) & df_decomposed.chr.isin(all_chr_list)]
             kept == getitem_rows(tbl.rows, mask(tbl, all_chr_list))
             h2 == Append(h1, PeakTable(kept))
         IN  [heap |-> h2, ret |-> Ok(Len(h2)),
              stdout |-> Printed(tbl, all_chr_list, Len(kept))]

-----------------------------------------------------------------------------
(* Sequence collections (gimmemotifs.fasta.Fasta): two parallel lists *)

\* Fasta()
Fasta == [cls |-> "Fasta", ids |-> <<>>, seqs |-> <<>>]

\* fasta.add(name, seq): both lists grow by one
add(fasta, name, seq) ==
    [fasta EXCEPT !.ids = Append(@, name), !.seqs = Append(@, seq)]

\* a plausible slip: the name is looked up at the position in the output
RECURSIVE remove_zero_seq_loop_outpos(_, _, _)
remove_zero_seq_loop_outpos(fasta_object, i, fasta) ==
    IF i > Len(fasta_object.seqs) THEN fasta
    ELSE IF fasta_object.seqs[i] # <<>>
         THEN remove_zero_seq_loop_outpos(fasta_object, i + 1,
                  add(fasta, fasta_object.ids[Len(fasta.ids) + 1], fasta_object.seqs[i]))
         ELSE remove_zero_seq_loop_outpos(fasta_object, i + 1, fasta)

\* for i, seq in enumerate(fasta_object.seqs):
\*     if seq: name = fasta_object.ids[i]; fasta.add(name, seq)
\* from position i on (positions count from 1 here), fasta being built
RECURSIVE remove_zero_seq_loop(_, _, _)
remove_zero_seq_loop(fasta_object, i, fasta) ==
    IF i > Len(fasta_object.seqs) THEN fasta
    ELSE IF fasta_object.seqs[i] # <<>>
         THEN remove_zero_seq_loop(fasta_object, i + 1,
                  add(fasta, fasta_object.ids[i], fasta_object.seqs[i]))
         ELSE remove_zero_seq_loop(fasta_object, i + 1, fasta)

\* remove_zero_seq(fasta_object): a new Fasta is made and filled; the result
\* is the heap and the reference returned
remove_zero_seq(h, fasta_object) ==
    LET h1 == Append(h, remove_zero_seq_loop(h[fasta_object], 1, Fasta)) IN
    [heap |-> h1, ret |-> Ok(Len(h1))]

-----------------------------------------------------------------------------
(* Peak-to-sequence converter *)

min(a, b) == IF a < b THEN a ELSE b

\* genome_data[chromosome_name][start:end] for 0 <= start and 1 <= end: the
\* bases at the 0-based positions start .. end-1 that the chromosome has, and
\* the coordinates the store reports for them, which are 1-based and closed
\* (pyfaidx.Sequence): start + 1 and the position of the last base returned.
genome_slice(genome, chromosome_name, start, end) ==
    LET chrom == genome[chromosome_name]
        seq == SubSeq(chrom, start + 1, min(end, Len(chrom)))
    IN  [name |-> chromosome_name, start |-> start + 1, end |-> start + Len(seq),
         seq |-> seq]

\* a plausible slip: the record is named by the identifier asked for
peak2seq_queryname(genome, peak_id) ==
    LET d == decompose_chrstr(peak_id) IN
    IF d.exc # "none" THEN d
    ELSE IF ~int_ok(d.val[2]) \/ ~int_ok(d.val[3]) THEN Raise("ValueError")
    ELSE IF d.val[1] \notin DOMAIN genome THEN Raise("KeyError")
    ELSE LET tmp == genome_slice(genome, d.val[1], int(d.val[2]), int(d.val[3]))
         IN  Ok(<<peak_id, tmp.seq>>)

\* peak2seq(peak_id): (name, seq), name = f"{tmp.name}_{tmp.start}_{tmp.end}"
peak2seq(genome, peak_id) ==
    LET d == decompose_chrstr(peak_id) IN
    IF d.exc # "none" THEN d
    ELSE IF ~int_ok(d.val[2]) \/ ~int_ok(d.val[3]) THEN Raise("ValueError")
    ELSE IF d.val[1] \notin DOMAIN genome THEN Raise("KeyError")
    ELSE LET tmp == genome_slice(genome, d.val[1], int(d.val[2]), int(d.val[3]))
         IN  Ok(<<tmp.name \o <<"_">> \o str(tmp.start) \o <<"_">> \o str(tmp.end),
                  tmp.seq>>)

\* for peak_id in peak_ids: name, seq = peak2seq(peak_id); fasta.add(name, seq)
\* the first identifier that fails ends the loop with its exception
RECURSIVE peak2fasta_loop(_, _, _)
peak2fasta_loop(genome, peak_ids, fasta) ==
    IF peak_ids = <<>> THEN Ok(fasta)
    ELSE LET r == peak2seq(genome, Head(peak_ids)) IN
         IF r.exc # "none" THEN r
         ELSE peak2fasta_loop(genome, Tail(peak_ids), add(fasta, r.val[1], r.val[2]))

\* a Python value given as peak_ids: a str or a list of str
PyStr(v) == [type |-> "str", v |-> v]
PyList(v) == [type |-> "list", v |-> v]

\* what the for loop iterates over: the elements of a list, the characters of
\* a str (each a str of length one)
Iterate(x) == IF x.type = "str" THEN [i \in 1..Len(x.v) |-> <<x.v[i]>>] ELSE x.v

\* a plausible slip: no special case for a single identifier
peak2fasta_nostr(h, peak_ids, genome) ==
    LET r == peak2fasta_loop(genome, Iterate(peak_ids), Fasta) IN
    IF r.exc # "none" THEN [heap |-> h, ret |-> r]
    ELSE [heap |-> Append(h, r.val), ret |-> Ok(Len(h) + 1)]

\* peak2fasta(peak_ids, ref_genome, genomes_dir):
\* if type(peak_ids) is str: peak_ids = [peak_ids]
peak2fasta(h, peak_ids, genome) ==
    LET ids == IF peak_ids.type = "str" THEN PyList(<<peak_ids.v>>) ELSE peak_ids
        r == peak2fasta_loop(genome, Iterate(ids), Fasta)
    IN  IF r.exc # "none" THEN [heap |-> h, ret |-> r]
        ELSE [heap |-> Append(h, r.val), ret |-> Ok(Len(h) + 1)]

-----------------------------------------------------------------------------
(* BED loader *)

\* a cell of a parsed table: a value, or missing (NaN)
Cell(v) == [na |-> FALSE, v |-> v]
NaN == [na |-> TRUE, v |-> 0]
\* a missing value of a column of strings
NaN_str == [na |-> TRUE, v |-> ""]

\* the dtype pandas gives a column of whole numbers: float64 once a value is
\* missing, int64 otherwise
column_dtype(lines, col) ==
    IF \E i \in 1..Len(lines) : lines[i][col].na THEN "float64" ELSE "int64"

\* BedTool(bed_path).to_dataframe(): one row per line, labelled 0, 1, ...
to_dataframe(lines) ==
    DataFrame([i \in 1..Len(lines) |->
                  [index |-> i - 1, chrom |-> lines[i].chrom, start |-> lines[i].start,
                   end |-> lines[i].end, name |-> lines[i].name]],
              "chrom",
              [start |-> column_dtype(lines, "start"), end |-> column_dtype(lines, "end")])

RowHasNaN(row) == row.chrom.na \/ row.start.na \/ row.end.na \/ row.name.na

\* .dropna(axis=0): the rows without a missing value, labels and dtypes kept
RECURSIVE dropna_rows(_)
dropna_rows(rows) ==
    IF rows = <<>> THEN <<>>
    ELSE (IF RowHasNaN(Head(rows)) THEN <<>> ELSE <<Head(rows)>>)
         \o dropna_rows(Tail(rows))

dropna(df) == [df EXCEPT !.rows = dropna_rows(df.rows)]

\* a plausible slip: start and end go to str without the cast to int
read_bed_nocast(lines) ==
    LET tt == dropna(to_dataframe(lines)) IN
    Ok([tt EXCEPT !.rows =
          [i \in 1..Len(tt.rows) |->
              [index |-> tt.rows[i].index, chrom |-> tt.rows[i].chrom,
               start |-> tt.rows[i].start, end |-> tt.rows[i].end,
               name |-> tt.rows[i].name,
               seqname |-> tt.rows[i].chrom.v
                           \o <<"_">> \o astype_str(tt.rows[i].start.v, tt.dtypes.start)
                           \o <<"_">> \o astype_str(tt.rows[i].end.v, tt.dtypes.end)]]])

\* tt = BedTool(bed_path).to_dataframe().dropna(axis=0)
\* tt["seqname"] = tt.chrom + "_" + tt.start.astype("int").astype("str")
\*                          + "_" + tt.end.astype("int").astype("str")
\* lines is what the BED parser reads from bed_path
read_bed(lines) ==
    LET tt == dropna(to_dataframe(lines)) IN
    Ok([tt EXCEPT !.rows =
          [i \in 1..Len(tt.rows) |->
              [index |-> tt.rows[i].index, chrom |-> tt.rows[i].chrom,
               start |-> tt.rows[i].start, end |-> tt.rows[i].end,
               name |-> tt.rows[i].name,
               seqname |-> tt.rows[i].chrom.v
                           \o <<"_">> \o astype_str(tt.rows[i].start.v, "int64")
                           \o <<"_">> \o astype_str(tt.rows[i].end.v, "int64")]]])

-----------------------------------------------------------------------------
(* Inputs of the codec *)

Tokens ==
    { <<>>, chr1, random, <<"1", "0", "0">>, <<"2", "0", "0">>, <<"0">>,
      <<"0", "7">>, <<"-", "5">> }

RECURSIVE TokenSeqs(_)
TokenSeqs(n) ==
    IF n = 0 THEN { <<>> }
    ELSE LET S == TokenSeqs(n - 1) IN
         S \cup { Append(t, k) : t \in { u \in S : Len(u) = n - 1 }, k \in Tokens }

PeakStrs == { join(t) : t \in TokenSeqs(MaxTokens) \ { <<>> } }

\* all sequences of at most n elements of S
SeqsUpTo(S, n) == UNION { [1..k -> S] : k \in 0..n }

\* rows of a chr/start/end table; the index labels are 0, 1, ...
CodecRows ==
    { [chr |-> c, start |-> s, end |-> e] :
        c \in {chr1, chr1_random}, s \in {0, 100, -5}, e \in {7, 200} }

CodecTables ==
    { DataFrame([i \in 1..Len(r) |->
                    [index |-> i - 1, chr |-> r[i].chr,
                     start |-> r[i].start, end |-> r[i].end]], cc, dt) :
        r \in SeqsUpTo(CodecRows, MaxIds),
        cc \in {"chr", "chrom"},
        dt \in [start : {"int64", "float64"}, end : {"int64", "float64"}] }

\* identifiers given to list_peakstr_to_df by a caller that did not compose them
ListedPeakStrs ==
    { join(<<chr1, <<"1", "0", "0">>, <<"2", "0", "0">> >>),
      join(<<chr1, random, <<"1", "0", "0">>, <<"2", "0", "0">> >>),
      join(<<chr1, <<"0", "7">>, <<"2", "0", "0">> >>),
      join(<<chr1, random, <<"2", "0", "0">> >>),
      chr1 }

-----------------------------------------------------------------------------
(* Inputs of the validator *)

chrX == <<"c", "h", "r", "X">>
Str_103 == <<"1", "0", "3">>
Str_105 == <<"1", "0", "5">>
Str_110 == <<"1", "1", "0">>

Peak_len3 == join(<<chr1, <<"1", "0", "0">>, Str_103>>)
Peak_len10 == join(<<chr1, <<"1", "0", "0">>, Str_110>>)
Peak_unknown_chr == join(<<chrX, <<"1", "0", "0">>, Str_110>>)
\* end before start, |end - start| = n_threshold, underscore in the chromosome
Peak_reversed_len5 == join(<<chr1, random, Str_105, <<"1", "0", "0">> >>)
Peak_one_token == chr1

ValidatorPeaks ==
    { Peak_len3, Peak_len10, Peak_unknown_chr, Peak_reversed_len5, Peak_one_token }

\* index labels a caller's table may carry: in order, permuted, repeated, or
\* beyond the number of rows
IndexLabels == {0, 1, 2}

PeakTables ==
    { PeakTable(r) :
        r \in SeqsUpTo([index : IndexLabels, peak_id : ValidatorPeaks], MaxRows) }

-----------------------------------------------------------------------------
(* Inputs of the cleaner, the converter and the loader *)

Bases == { <<>>, <<"A", "C", "G", "T">>, <<"G", "G">> }
Names == {"seq_a", "seq_b", "seq_c"}

\* a Fasta holds as many names as sequences
Fastas ==
    { [cls |-> "Fasta", ids |-> [i \in 1..Len(r) |-> r[i].name],
       seqs |-> [i \in 1..Len(r) |-> r[i].seq]] :
        r \in SeqsUpTo([name : Names, seq : Bases], MaxSeqs) }

\* identifiers with a start >= 0 and an end >= 1, on the two chromosomes of
\* the genome and on one it does not have, and one that does not decompose
ConverterPeaks ==
    { join(<<c, s, e>>) :
        c \in {chr1, chr1_random, chrX},
        s \in { <<"0">>, <<"2">>, <<"1", "0">> },
        e \in { <<"3">>, <<"1", "0", "0">> } }
    \cup {chr1}

ConverterInputs ==
    { PyStr(p) : p \in ConverterPeaks }
    \cup { PyList(l) : l \in SeqsUpTo(ConverterPeaks, MaxPeaks) }

BedLines ==
    [chrom : {Cell(chr1), Cell(chr1_random)},
     start : {NaN, Cell(0), Cell(100)},
     end : {NaN, Cell(200)},
     name : {NaN_str, Cell("peak")}]

\* a file holds at least one line: what the parser makes of an empty file is
\* its own matter, and read_bed returns no table for it
BedFiles == SeqsUpTo(BedLines, MaxBedRows) \ { <<>> }

-----------------------------------------------------------------------------
(* The calls *)

Init ==
    /\ call = "idle"
    /\ arg = <<>>
    /\ heap = <<>>
    /\ ret = Ok(<<>>)
    /\ hist = <<>>
    /\ stdout = <<>>

Call_decompose_chrstr ==
    /\ call = "idle"
    /\ \E p \in PeakStrs :
          /\ call' = "decompose_chrstr"
          /\ arg' = p
          /\ heap' = <<>>
          /\ ret' = decompose_chrstr(p)
          /\ hist' = <<>>
          /\ stdout' = <<>>

Call_peak_M1 ==
    /\ call = "idle"
    /\ \E p \in PeakStrs :
          /\ call' = "peak_M1"
          /\ arg' = p
          /\ heap' = <<>>
          /\ ret' = peak_M1(p)
          /\ hist' = <<>>
          /\ stdout' = <<>>

\* the caller holds one table, at reference 1
Call_check_peak_format ==
    /\ call = "idle"
    /\ \E t \in PeakTables :
          LET r == check_peak_format(<<t>>, 1, DOMAIN genome_data) IN
          /\ call' = "check_peak_format"
          /\ arg' = [peaks_df |-> 1, table |-> t]
          /\ heap' = r.heap
          /\ ret' = r.ret
          /\ hist' = <<>>
          /\ stdout' = r.stdout

\* the caller holds one Fasta, at reference 1
Call_remove_zero_seq ==
    /\ call = "idle"
    /\ \E f \in Fastas :
          LET r == remove_zero_seq(<<f>>, 1) IN
          /\ call' = "remove_zero_seq"
          /\ arg' = [fasta_object |-> 1, fasta |-> f]
          /\ heap' = r.heap
          /\ ret' = r.ret
          /\ hist' = <<>>
          /\ stdout' = <<>>

Call_peak2fasta ==
    /\ call = "idle"
    /\ \E x \in ConverterInputs :
          LET r == peak2fasta(<<>>, x, genome_data) IN
          /\ call' = "peak2fasta"
          /\ arg' = x
          /\ heap' = r.heap
          /\ ret' = r.ret
          /\ hist' = <<>>
          /\ stdout' = <<>>

Call_read_bed ==
    /\ call = "idle"
    /\ \E f \in BedFiles :
          /\ call' = "read_bed"
          /\ arg' = f
          /\ heap' = <<>>
          /\ ret' = read_bed(f)
          /\ hist' = <<>>
          /\ stdout' = <<>>

\* the call just made, as the next call of the chain remembers it
Last == [call |-> call, arg |-> arg, ret |-> ret]

Call_df_to_list_peakstr ==
    /\ call = "idle"
    /\ \E x \in CodecTables :
          /\ call' = "df_to_list_peakstr"
          /\ arg' = x
          /\ heap' = <<>>
          /\ ret' = df_to_list_peakstr(x)
          /\ hist' = <<>>
          /\ stdout' = <<>>

Call_list_peakstr_to_df ==
    /\ call = "idle"
    /\ \E x \in SeqsUpTo(ListedPeakStrs, MaxIds) :
          /\ call' = "list_peakstr_to_df"
          /\ arg' = x
          /\ heap' = <<>>
          /\ ret' = list_peakstr_to_df(x)
          /\ hist' = <<>>
          /\ stdout' = <<>>

\* the identifiers df_to_list_peakstr composed are given to list_peakstr_to_df
Chain_list_peakstr_to_df ==
    /\ call = "df_to_list_peakstr"
    /\ hist = <<>>
    /\ stdout = <<>>
    /\ ret.exc = "none"
    /\ call' = "list_peakstr_to_df"
    /\ arg' = ret.val
    /\ heap' = <<>>
    /\ ret' = list_peakstr_to_df(ret.val)
    /\ hist' = <<Last>>
    /\ stdout' = <<>>

\* the table list_peakstr_to_df built from them is composed again
Chain_df_to_list_peakstr ==
    /\ call = "list_peakstr_to_df"
    /\ Len(hist) = 1
    /\ ret.exc = "none"
    /\ call' = "df_to_list_peakstr"
    /\ arg' = ret.val
    /\ heap' = <<>>
    /\ ret' = df_to_list_peakstr(ret.val)
    /\ hist' = Append(hist, Last)
    /\ stdout' = <<>>

\* the call has returned or raised; the caller is free to call again
Return ==
    /\ call # "idle"
    /\ call' = "idle"
    /\ arg' = <<>>
    /\ heap' = <<>>
    /\ ret' = Ok(<<>>)
    /\ hist' = <<>>
    /\ stdout' = <<>>

Next ==
    \/ Call_decompose_chrstr
    \/ Call_peak_M1
    \/ Call_check_peak_format
    \/ Call_remove_zero_seq
    \/ Call_peak2fasta
    \/ Call_read_bed
    \/ Call_df_to_list_peakstr
    \/ Call_list_peakstr_to_df
    \/ Chain_list_peakstr_to_df
    \/ Chain_df_to_list_peakstr
    \/ Return

Spec == Init /\ [][Next]_vars

\* The functions share no state, so each component is also checked alone.

NextCodec ==
    \/ Call_decompose_chrstr
    \/ Call_peak_M1
    \/ Call_df_to_list_peakstr
    \/ Call_list_peakstr_to_df
    \/ Chain_list_peakstr_to_df
    \/ Chain_df_to_list_peakstr
    \/ Return

SpecCodec == Init /\ [][NextCodec]_vars

NextValidator == Call_check_peak_format \/ Return

SpecValidator == Init /\ [][NextValidator]_vars

NextCleaner == Call_remove_zero_seq \/ Return

SpecCleaner == Init /\ [][NextCleaner]_vars

NextConverter == Call_peak2fasta \/ Return

SpecConverter == Init /\ [][NextConverter]_vars

NextLoader == Call_read_bed \/ Return

SpecLoader == Init /\ [][NextLoader]_vars

-----------------------------------------------------------------------------
(* Claims about the codec *)

CountUnderscores(s) == Cardinality({ i \in 1..Len(s) : s[i] = "_" })
NoUnderscore(s) == \A i \in 1..Len(s) : s[i] # "_"

Str_100 == <<"1", "0", "0">>
Str_200 == <<"2", "0", "0">>
Str_99 == <<"9", "9">>
Id_chr1_100_200 == chr1 \o <<"_">> \o Str_100 \o <<"_">> \o Str_200
Id_chr1_99_200 == chr1 \o <<"_">> \o Str_99 \o <<"_">> \o Str_200
Id_chr1_random_100_200 == chr1_random \o <<"_">> \o Str_100 \o <<"_">> \o Str_200
Id_100_200 == Str_100 \o <<"_">> \o Str_200

\* C2: an identifier with at least 3 tokens (at least two underscores)
\* decomposes to (chr, start, end) where end is the text after the last
\* underscore, start the text between the last two underscores and chr all
\* the text before, underscores included; start and end are the original
\* strings.  Stated on the characters of the identifier: the three parts put
\* back with two underscores are the identifier, and neither start nor end
\* holds an underscore.
C2_DecomposeLastTwoTokens ==
    (call = "decompose_chrstr" /\ CountUnderscores(arg) >= 2) =>
        /\ ret.exc = "none"
        /\ ret.val[1] \o <<"_">> \o ret.val[2] \o <<"_">> \o ret.val[3] = arg
        /\ NoUnderscore(ret.val[2])
        /\ NoUnderscore(ret.val[3])
        /\ (arg = Id_chr1_random_100_200 =>
                ret.val = <<chr1_random, Str_100, Str_200>>)

C2_Witness ==
    /\ call = "decompose_chrstr"
    /\ arg = Id_chr1_random_100_200
    /\ ret = Ok(<<chr1_random, Str_100, Str_200>>)

\* C3 as stated: decompose_chrstr raises for every identifier with fewer
\* than 3 tokens (fewer than two underscores), and so does its caller peak_M1.
C3_FailsBelowThreeTokens ==
    (call \in {"decompose_chrstr", "peak_M1"} /\ CountUnderscores(arg) < 2) =>
        ret.exc # "none"

\* C3 amended: decompose_chrstr raises ValueError, which its caller peak_M1
\* lets through, exactly for the identifiers with fewer than 2 tokens (no
\* underscore); an identifier with exactly 2 tokens is decomposed to an empty
\* chromosome and the two tokens.
C3_FailsBelowTwoTokens ==
    /\ (call \in {"decompose_chrstr", "peak_M1"} /\ CountUnderscores(arg) = 0) =>
            ret = Raise("ValueError")
    /\ (call = "decompose_chrstr" /\ CountUnderscores(arg) = 1) =>
            /\ ret.exc = "none"
            /\ ret.val[1] = <<>>
            /\ ret.val[2] \o <<"_">> \o ret.val[3] = arg
    /\ (call = "decompose_chrstr" /\ arg = Id_100_200) =>
            ret = Ok(<< <<>>, Str_100, Str_200 >>)

C3_Witness ==
    /\ call = "decompose_chrstr"
    /\ arg = chr1
    /\ ret = Raise("ValueError")

C3_WitnessTwoTokens ==
    /\ call = "decompose_chrstr"
    /\ arg = Id_100_200
    /\ ret = Ok(<< <<>>, Str_100, Str_200 >>)

\* C6: for an identifier whose start token is an integer, peak_M1 returns an
\* identifier that decomposes to the same chromosome (underscores included),
\* the same end token, and a start token that reads as the input start
\* minus 1.
C6_PeakM1ShiftsStart ==
    (/\ call = "peak_M1"
     /\ decompose_chrstr(arg).exc = "none"
     /\ int_ok(decompose_chrstr(arg).val[2])) =>
        LET in == decompose_chrstr(arg).val
            \* what the result holds between the chromosome and the end token
            t == SubSeq(ret.val, Len(in[1]) + 2, Len(ret.val) - Len(in[3]) - 1)
        IN
        /\ ret.exc = "none"
        /\ ret.val = in[1] \o <<"_">> \o t \o <<"_">> \o in[3]
        /\ int_ok(t)
        /\ int(t) = int(in[2]) - 1
        /\ (arg = Id_chr1_100_200 => ret.val = Id_chr1_99_200)

C6_Witness ==
    /\ call = "peak_M1"
    /\ arg = Id_chr1_random_100_200
    /\ ret = Ok(chr1_random \o <<"_">> \o Str_99 \o <<"_">> \o Str_200)

\* whether the identifiers now in hand were composed from integer columns
ComposedFromIntegers ==
    /\ Len(hist) >= 1
    /\ hist[1].call = "df_to_list_peakstr"
    /\ hist[1].arg.dtypes = Int64

\* C4: identifiers composed from a chromosome string and integer start and
\* end survive decomposition and recomposition: list_peakstr_to_df accepts
\* every list of composed identifiers, and df_to_list_peakstr of its result
\* is that list, element by element and in order.
C4_RoundTrip ==
    /\ (call = "list_peakstr_to_df" /\ Len(hist) = 1 /\ ComposedFromIntegers) =>
            ret.exc = "none"
    /\ (call = "df_to_list_peakstr" /\ Len(hist) = 2 /\ ComposedFromIntegers) =>
            ret = Ok(hist[2].arg)

\* the round trip of the lists that hold at least one identifier
C4_RoundTripNonEmpty ==
    /\ (call = "list_peakstr_to_df" /\ Len(hist) = 1 /\ ComposedFromIntegers
          /\ arg # <<>>) =>
            ret.exc = "none"
    /\ (call = "df_to_list_peakstr" /\ Len(hist) = 2 /\ ComposedFromIntegers) =>
            ret = Ok(hist[2].arg)

C4_RoundTripReached ==
    /\ call = "df_to_list_peakstr"
    /\ Len(hist) = 2
    /\ ComposedFromIntegers
    /\ Len(ret.val) = 2
    /\ ret.val[1] = chr1_random \o <<"_">> \o <<"-", "5">> \o <<"_">> \o <<"7">>

-----------------------------------------------------------------------------
(* Claims about the validator *)

\* what a row's own peak_id says: a known chromosome and |end - start| >= 5
RowIsValid(row) ==
    LET d == decompose_chrstr(row.peak_id).val IN
    /\ d[1] \in DOMAIN genome_data
    /\ abs(int(d[3]) - int(d[2])) >= 5

RECURSIVE ValidRows(_)
ValidRows(rows) ==
    IF rows = <<>> THEN <<>>
    ELSE (IF RowIsValid(Head(rows)) THEN <<Head(rows)>> ELSE <<>>)
         \o ValidRows(Tail(rows))

Returned == heap[ret.val]

\* C1: whatever the index labels of the table, the table check_peak_format
\* returns holds exactly the input rows whose own peak_id names a known
\* chromosome and an interval of length >= 5, in their original order.
C1_KeepsExactlyValidRows ==
    (call = "check_peak_format" /\ ret.exc = "none") =>
        Returned.rows = ValidRows(arg.table.rows)

\* the same, for the tables whose index labels are 0, 1, ... in row order
C1_KeepsValidRowsUnderRangeIndex ==
    (/\ call = "check_peak_format"
     /\ \A i \in 1..Len(arg.table.rows) : arg.table.rows[i].index = i - 1) =>
        /\ ret.exc = "none" <=> ~decompose_raises(arg.table)
        /\ ret.exc = "none" => Returned.rows = ValidRows(arg.table.rows)

C1_RangeIndexExample ==
    /\ call = "check_peak_format"
    /\ arg.table.rows = << [index |-> 0, peak_id |-> Peak_len3],
                           [index |-> 1, peak_id |-> Peak_len10],
                           [index |-> 2, peak_id |-> Peak_unknown_chr] >>
    /\ ret.exc = "none"
    /\ Returned.rows = << [index |-> 1, peak_id |-> Peak_len10] >>

\* C5: check_peak_format leaves the table it is given as it was, whether it
\* returns or raises, and the table it returns is another object.
C5_InputUntouched ==
    call = "check_peak_format" =>
        /\ heap[arg.peaks_df] = arg.table
        /\ ret.exc = "none" => ret.val # arg.peaks_df

C5_Witness ==
    /\ call = "check_peak_format"
    /\ ret.exc = "none"
    /\ Len(Returned.rows) < Len(arg.table.rows)
    /\ heap[arg.peaks_df] = arg.table

C5_WitnessRaised ==
    /\ call = "check_peak_format"
    /\ ret.exc = "IndexingError"
    /\ heap[arg.peaks_df] = arg.table

\* C10: the four counts printed are the number of input rows, the number of
\* input rows on an unknown chromosome, the number of input rows shorter than
\* 5, and the number of rows returned, with
\* before - invalid_chr - invalid_length <= after
\*                                       <= before - max(invalid_chr, invalid_length).
C10_CountsConsistent ==
    (call = "check_peak_format" /\ ret.exc = "none") =>
        LET rows == arg.table.rows
            d(i) == decompose_chrstr(rows[i].peak_id).val
            before == stdout[1].n
            invalid_chr == stdout[2].n
            invalid_length == stdout[3].n
            after == stdout[4].n
            max == IF invalid_chr > invalid_length THEN invalid_chr ELSE invalid_length
        IN
        /\ before = Len(rows)
        /\ invalid_chr =
              Cardinality({ i \in 1..Len(rows) : d(i)[1] \notin DOMAIN genome_data })
        /\ invalid_length =
              Cardinality({ i \in 1..Len(rows) : abs(int(d(i)[3]) - int(d(i)[2])) < 5 })
        /\ after = Len(Returned.rows)
        /\ before - invalid_chr - invalid_length <= after
        /\ after <= before - max

\* the counts alone, each against the table it counts
C10_EachCountIsRight ==
    (call = "check_peak_format" /\ ret.exc = "none") =>
        LET rows == arg.table.rows
            d(i) == decompose_chrstr(rows[i].peak_id).val
        IN
        /\ stdout[1].n = Len(rows)
        /\ stdout[2].n =
              Cardinality({ i \in 1..Len(rows) : d(i)[1] \notin DOMAIN genome_data })
        /\ stdout[3].n =
              Cardinality({ i \in 1..Len(rows) : abs(int(d(i)[3]) - int(d(i)[2])) < 5 })
        /\ stdout[4].n = Len(Returned.rows)

-----------------------------------------------------------------------------
(* Claims about the cleaner, the converter and the loader *)

Pairs(f) == [i \in 1..Len(f.seqs) |-> <<f.ids[i], f.seqs[i]>>]
HasSequence(pair) == pair[2] # <<>>

\* C7: remove_zero_seq returns a new collection holding exactly the records
\* of the input whose sequence is not empty, in their order, each with the
\* name it had at its position in the input; the input is left as it was.
C7_KeepsNonEmptyRecords ==
    call = "remove_zero_seq" =>
        /\ ret.exc = "none"
        /\ ret.val # arg.fasta_object
        /\ heap[arg.fasta_object] = arg.fasta
        /\ Len(Returned.ids) = Len(Returned.seqs)
        /\ Pairs(Returned) = SelectSeq(Pairs(arg.fasta), HasSequence)

C7_Witness ==
    /\ call = "remove_zero_seq"
    /\ arg.fasta.seqs = << <<"A", "C", "G", "T">>, <<>>, <<"G", "G">> >>
    /\ arg.fasta.ids = <<"seq_a", "seq_b", "seq_c">>
    /\ Returned.ids = <<"seq_a", "seq_c">>
    /\ Returned.seqs = << <<"A", "C", "G", "T">>, <<"G", "G">> >>

\* the identifiers of a peak2fasta argument: a str counts as a list of one
AsList(x) == IF x.type = "str" THEN <<x.v>> ELSE x.v

\* whether an identifier names a chromosome of the genome and two integers
OnKnownChromosome(peak_id) ==
    LET d == decompose_chrstr(peak_id) IN
    /\ d.exc = "none"
    /\ int_ok(d.val[2])
    /\ int_ok(d.val[3])
    /\ d.val[1] \in DOMAIN genome_data

\* C8: for identifiers on known chromosomes peak2fasta returns one record per
\* identifier, in order; record i holds the bases of chromosome_i at the
\* 0-based positions start_i .. end_i - 1 (those the chromosome has), and is
\* named chromosome_i, then the 1-based position of its first base, then the
\* position of its last base, which are the coordinates the store reports and
\* not those of the identifier; a str is treated as the list holding it.
C8_OneRecordPerPeak ==
    (/\ call = "peak2fasta"
     /\ \A i \in 1..Len(AsList(arg)) : OnKnownChromosome(AsList(arg)[i])) =>
        /\ ret.exc = "none"
        /\ Len(Returned.ids) = Len(AsList(arg))
        /\ Len(Returned.seqs) = Len(AsList(arg))
        /\ \A i \in 1..Len(AsList(arg)) :
              LET d == decompose_chrstr(AsList(arg)[i]).val
                  chrom == genome_data[d[1]]
                  s == int(d[2])
                  e == int(d[3])
                  seq == Returned.seqs[i]
                  n == IF min(e, Len(chrom)) > s THEN min(e, Len(chrom)) - s ELSE 0
              IN  /\ Len(seq) = n
                  /\ \A k \in 1..n : seq[k] = chrom[s + k]
                  /\ Returned.ids[i] = join(<<d[1], str(s + 1), str(s + n)>>)

\* a single identifier given as a str, clipped at the end of the chromosome
C8_Witness ==
    /\ call = "peak2fasta"
    /\ arg = PyStr(join(<<chr1_random, <<"2">>, <<"1", "0", "0">> >>))
    /\ ret.exc = "none"
    /\ Returned.ids = << join(<<chr1_random, <<"3">>, <<"4">> >>) >>
    /\ Returned.seqs = << <<"C", "C">> >>

C8_WitnessList ==
    /\ call = "peak2fasta"
    /\ arg.type = "list"
    /\ Len(arg.v) = 2
    /\ ret.exc = "none"
    /\ Returned.ids = << join(<<chr1, <<"1">>, <<"3">> >>),
                         join(<<chr1_random, <<"3">>, <<"4">> >>) >>

\* the lines of a file that miss no field
CompleteLine(line) == ~line.chrom.na /\ ~line.start.na /\ ~line.end.na /\ ~line.name.na

\* a returned row without its index label and its seqname: the line it was
Line(row) == [chrom |-> row.chrom, start |-> row.start, end |-> row.end,
              name |-> row.name]

=============================================================================
